---------------------------- MODULE Spec2Model ----------------------------
(***************************************************************************)
(* Enrollment, progress and submission handlers of the aiboost backend.   *)
(*                                                                         *)
(* Every Express handler is an async function: it runs until its next     *)
(* `await` on a storage call, and other requests run in between.  A        *)
(* request in flight is a slot of `procs`; each action below is one        *)
(* storage call of one handler together with the synchronous code that     *)
(* follows it up to the next await (or up to the response).                *)
(*                                                                         *)
(* The handlers are taken from src/src/handlers/courses.js and the admin   *)
(* router in src/src/handlers/Registration.js (Prisma).  Operations that   *)
(* exist only in the earlier Supabase revision (unenroll, assign, chapter  *)
(* deletion) are taken from src/unnamed/part_004.                          *)
(*                                                                         *)
(* A storage call that rejects for a reason of its own (connection lost,   *)
(* timeout) is modelled in the handlers that write more than once, where   *)
(* it leaves the earlier write behind; in a handler with a single write it *)
(* changes nothing.  Constraint violations are modelled everywhere.        *)
(***************************************************************************)
EXTENDS Integers, Sequences, FiniteSets, TLC

\* ------------------------------------------------------------------ bounds
NumUsers == 2
NumCourses == 1
NumChapters == 2
NumProcs == 2
MaxCount == 2
MaxCompleted == 2
MaxSubmissions == 2
NumLinks == 1
NumComments == 1

Users == 1..NumUsers
Courses == 1..NumCourses
ChapterIds == 1..NumChapters
Procs == 1..NumProcs

\* Request inputs.  Id 0 names no row of its table; a chapter id names no row
\* once the chapter is deleted.
UserInputs == 0..NumUsers
CourseInputs == 0..NumCourses
ChapterInputs == 1..NumChapters
\* An e-mail address is modelled by the id of the user who owns it
\* (User.email is unique); 0 is an address of no user, NoEmail a missing one.
NoEmail == 0 - 1
\* A missing score (undefined) and the scores tried.
NoScore == 0 - 1
PassScore == 80
ScoreInputs == {NoScore, PassScore - 1, PassScore, 101}
\* A link is modelled by a number: 0 is the empty string, NoLink a missing one.
NoLink == 0 - 1
LinkInputs == {NoLink} \cup (0..NumLinks)
\* enum SubmissionStatus, and the statuses a review may send.
SubmissionStatus == {"PENDING", "REVIEWING", "ACCEPTED", "REJECTED"}
StatusInputs == SubmissionStatus \cup {"NEEDS_REVISION"}
\* mentor_comment: 0 is null.
CommentInputs == 1..NumComments
SubmissionInputs == 0..MaxSubmissions
EmailInputs == {NoEmail} \cup UserInputs

\* enum UserRole; the role a request acts under is the one in its token.
Roles == {"USER", "MENTOR", "ADMIN"}

VARIABLES
    enrolled_courses,   \* User.enrolled_courses : Int[] per user
    enrolled_count,     \* Course.enrolled_count per course
    courses,            \* ids of the existing Course rows
    chapters,           \* Chapter.course_id per chapter id, 0: no such row
    user_progress,      \* the UserProgress row of each (user_id, course_id)
    submissions,        \* the Submission rows; a row's id is its position
    role,               \* User.role per user
    is_suspended,       \* User.is_suspended per user
    procs               \* the requests in flight

vars == <<enrolled_courses, enrolled_count, courses, chapters, user_progress,
          submissions, role, is_suspended, procs>>

enrollmentVars == <<enrolled_courses, enrolled_count>>
catalogVars == <<courses, chapters>>
progressVars == <<user_progress>>
accountVars == <<role, is_suspended>>

\* ------------------------------------------------------------ array helpers
\* includes() given the id as the string of the path: never in an Int[]
IncludesUnparsed(arr, x) == FALSE

\* Array.prototype.includes
Includes(arr, x) == \E i \in 1..Len(arr) : arr[i] = x

\* Array.prototype.filter(id => id !== x)
FilterOut(arr, x) == SelectSeq(arr, LAMBDA id : id # x)

\* number of elements of arr equal to x
RECURSIVE CountOf(_, _)
CountOf(arr, x) ==
    IF arr = <<>> THEN 0
    ELSE (IF Head(arr) = x THEN 1 ELSE 0) + CountOf(Tail(arr), x)

\* --------------------------------------------------------- request slots
\* A slot: the handler's position (pc), its inputs (uid is req.userId, role
\* the role in the request's token, tgt the user the request names), the values it has read (found, snap, cur, cnt),
\* its response (status, msg and the data: snap, cur, cnt, pct for a progress,
\* data for a submission's status).  Two fields record its history for the
\* properties: the number of storage writes it has committed (writes) and,
\* for an assign that passed the middleware, whether the submission was
\* unassigned when the request arrived (free).
Idle ==
    [pc |-> "idle", op |-> "none", uid |-> 0, role |-> "none", tgt |-> 0,
     cid |-> 0, ch |-> 0, score |-> 0,
     sid |-> 0, link |-> 0, decision |-> "none", comment |-> 0,
     flag |-> FALSE, found |-> FALSE, snap |-> <<>>, cur |-> 0, cnt |-> 0,
     pct |-> 0, data |-> "none", free |-> FALSE, writes |-> 0, status |-> 0,
     msg |-> "none"]

\* successResponse / errorResponse: the handler ends; its locals are dropped.
Respond(r, status, msg) ==
    [r EXCEPT !.pc = "done", !.status = status, !.msg = msg,
              !.found = FALSE, !.snap = <<>>, !.cur = 0, !.cnt = 0]

successResponse(r, msg) == Respond(r, 200, msg)
errorResponse(r, msg, status) == Respond(r, status, msg)

\* AdminMiddleware: the token's role must be ADMIN.
AdminMiddleware(tokenRole) == tokenRole = "ADMIN"

\* mentorAdminMiddleware: the token's role must be MENTOR or ADMIN.
mentorAdminMiddleware(tokenRole) == tokenRole \in {"MENTOR", "ADMIN"}

\* ---------------------------------------------------------------- catalog
\* The catalog the administrators have created: every course exists and the
\* chapters are dealt to the courses in turn.
InitialCourseOf(ch) == ((ch - 1) % NumCourses) + 1

\* { chapters of courseId }
ChaptersOf(courseId) == {ch \in ChapterIds : chapters[ch] = courseId}

\* prisma.chapter.count({ where: { course_id } })
ChapterCount(courseId) == Cardinality(ChaptersOf(courseId))

\* The accounts: the learners have registered (role USER by default) and the
\* last account is the administrator's.
InitialRoleOf(u) == IF u = NumUsers THEN "ADMIN" ELSE "USER"

\* No UserProgress row for the pair.  rows: the number of rows of the pair;
\* the other fields are those of the row a query for the pair finds.
NoProgress == [exists |-> FALSE, rows |-> 0, current_chapter_id |-> 0,
               completed_chapters |-> <<>>]

\* ------------------------------------------------------------------- Init
Init ==
    /\ enrolled_courses = [u \in Users |-> <<>>]
    /\ enrolled_count = [c \in Courses |-> 0]
    /\ courses = Courses
    /\ chapters = [ch \in ChapterIds |-> InitialCourseOf(ch)]
    /\ user_progress = [k \in Users \X Courses |-> NoProgress]
    /\ submissions = <<>>
    /\ role = [u \in Users |-> InitialRoleOf(u)]
    /\ is_suspended = [u \in Users |-> FALSE]
    /\ procs = [p \in Procs |-> Idle]

\* The response has been sent; the slot is free for the next request.
Return(p) ==
    /\ procs[p].pc = "done"
    /\ procs' = [procs EXCEPT ![p] = Idle]
    /\ UNCHANGED <<accountVars, enrollmentVars, catalogVars, progressVars, submissions>>

\* ------------------------------------------ POST /courses/enroll/:courseId
\* authMiddleware only; the user to enroll is named by req.body.email.
EnrollStart(p, actor, email, courseId) ==
    /\ procs[p].pc = "idle"
    /\ courseId \in courses => enrolled_count[courseId] < MaxCount
    /\ LET r == [Idle EXCEPT !.op = "enroll", !.uid = actor, !.tgt = email,
                             !.cid = courseId]
       IN procs' = [procs EXCEPT ![p] =
            IF email = NoEmail
            THEN errorResponse(r, "Email is required", 400)
            ELSE [r EXCEPT !.pc = "enroll_findCourse"]]
    /\ UNCHANGED <<accountVars, enrollmentVars, catalogVars, progressVars, submissions>>

\* prisma.course.findUnique
EnrollFindCourse(p) ==
    /\ procs[p].pc = "enroll_findCourse"
    /\ procs' = [procs EXCEPT ![p] =
            IF procs[p].cid \notin courses
            THEN errorResponse(@, "Course not found", 500)
            ELSE [@ EXCEPT !.pc = "enroll_findUser"]]
    /\ UNCHANGED <<accountVars, enrollmentVars, catalogVars, progressVars, submissions>>

\* prisma.user.findUnique({ where: { email } }) and the includes() test
EnrollFindUser(p) ==
    /\ procs[p].pc = "enroll_findUser"
    /\ procs' = [procs EXCEPT ![p] =
            IF procs[p].tgt \notin Users
            THEN errorResponse(@, "User not found", 500)
            ELSE IF Includes(enrolled_courses[procs[p].tgt], procs[p].cid)
            THEN errorResponse(@, "User already enrolled in this course", 500)
            ELSE [@ EXCEPT !.pc = "enroll_updateUser"]]
    /\ UNCHANGED <<accountVars, enrollmentVars, catalogVars, progressVars, submissions>>

\* prisma.user.update({ enrolled_courses: { push } }): the push is applied to
\* the stored array; the call may also reject (storage failure).
EnrollUpdateUser(p) ==
    /\ procs[p].pc = "enroll_updateUser"
    /\ \/ /\ enrolled_courses' = [enrolled_courses EXCEPT ![procs[p].tgt] =
                                        Append(@, procs[p].cid)]
          /\ procs' = [procs EXCEPT ![p] =
                [@ EXCEPT !.pc = "enroll_updateCourse", !.writes = @ + 1]]
       \/ /\ procs' = [procs EXCEPT ![p] =
                errorResponse(@, "storage error", 500)]
          /\ UNCHANGED enrolled_courses
    /\ UNCHANGED <<accountVars, enrolled_count, catalogVars, progressVars, submissions>>

\* prisma.course.update({ enrolled_count: { increment: 1 } })
EnrollUpdateCourse(p) ==
    /\ procs[p].pc = "enroll_updateCourse"
    /\ \/ /\ procs[p].cid \in courses
          /\ enrolled_count' = [enrolled_count EXCEPT ![procs[p].cid] = @ + 1]
          /\ procs' = [procs EXCEPT ![p] =
                [@ EXCEPT !.pc = "enroll_sendEmail", !.writes = @ + 1]]
       \/ /\ procs' = [procs EXCEPT ![p] =
                errorResponse(@, "storage error", 500)]
          /\ UNCHANGED enrolled_count
    /\ UNCHANGED <<accountVars, enrolled_courses, catalogVars, progressVars, submissions>>

\* await SendEmail(...) to the learner: mailjet may reject.
EnrollSendEmail(p) ==
    /\ procs[p].pc = "enroll_sendEmail"
    /\ \/ procs' = [procs EXCEPT ![p] = [@ EXCEPT !.pc = "enroll_sendAdminEmail"]]
       \/ procs' = [procs EXCEPT ![p] = errorResponse(@, "mail error", 500)]
    /\ UNCHANGED <<accountVars, enrollmentVars, catalogVars, progressVars, submissions>>

\* await SendEmail(...) to the administrator, then successResponse.
EnrollSendAdminEmail(p) ==
    /\ procs[p].pc = "enroll_sendAdminEmail"
    /\ \/ procs' = [procs EXCEPT ![p] =
                successResponse(@, "User enrolled successfully")]
       \/ procs' = [procs EXCEPT ![p] = errorResponse(@, "mail error", 500)]
    /\ UNCHANGED <<accountVars, enrollmentVars, catalogVars, progressVars, submissions>>

\* ------------------------------------- POST /admin/users/:userId/enroll
AdminEnrollStart(p, actor, tokenRole, userId, course_id) ==
    /\ procs[p].pc = "idle"
    /\ LET r == [Idle EXCEPT !.op = "adminEnroll", !.uid = actor,
                             !.tgt = userId, !.cid = course_id]
       IN procs' = [procs EXCEPT ![p] =
            IF ~AdminMiddleware(tokenRole)
            THEN errorResponse(r, "Access denied. Admin role required.", 403)
            ELSE [r EXCEPT !.pc = "adminEnroll_findUser"]]
    /\ UNCHANGED <<accountVars, enrollmentVars, catalogVars, progressVars, submissions>>

\* prisma.user.findUnique; a missing user makes user.enrolled_courses throw.
AdminEnrollFindUser(p) ==
    /\ procs[p].pc = "adminEnroll_findUser"
    /\ procs' = [procs EXCEPT ![p] =
            IF procs[p].tgt \notin Users
            THEN errorResponse(@, "Failed to enroll user in course", 500)
            ELSE IF Includes(enrolled_courses[procs[p].tgt], procs[p].cid)
            THEN successResponse(@, "User already enrolled in this course")
            ELSE [@ EXCEPT !.pc = "adminEnroll_updateUser"]]
    /\ UNCHANGED <<accountVars, enrollmentVars, catalogVars, progressVars, submissions>>

\* prisma.user.update({ enrolled_courses: { push: course_id } })
AdminEnrollUpdateUser(p) ==
    /\ procs[p].pc = "adminEnroll_updateUser"
    /\ enrolled_courses' = [enrolled_courses EXCEPT ![procs[p].tgt] =
                                Append(@, procs[p].cid)]
    /\ procs' = [procs EXCEPT ![p] =
            successResponse([@ EXCEPT !.writes = @ + 1],
                            "User enrolled in course successfully")]
    /\ UNCHANGED <<accountVars, enrolled_count, catalogVars, progressVars, submissions>>

\* --------------------------- DELETE /courses/:courseId/enrolled_users/:userId
UnenrollStart(p, actor, tokenRole, userId, courseId) ==
    /\ procs[p].pc = "idle"
    /\ courseId \in courses => enrolled_count[courseId] > 0 - MaxCount
    /\ LET r == [Idle EXCEPT !.op = "unenroll", !.uid = actor,
                             !.tgt = userId, !.cid = courseId]
       IN procs' = [procs EXCEPT ![p] =
            IF ~AdminMiddleware(tokenRole)
            THEN errorResponse(r, "Access denied. Admin role required.", 403)
            ELSE [r EXCEPT !.pc = "unenroll_selectUser"]]
    /\ UNCHANGED <<accountVars, enrollmentVars, catalogVars, progressVars, submissions>>

\* select enrolled_courses of the user (.single(): no row is an error), then
\* filter the array that was read (found: the array held the course)
UnenrollSelectUser(p) ==
    /\ procs[p].pc = "unenroll_selectUser"
    /\ procs' = [procs EXCEPT ![p] =
            IF procs[p].tgt \notin Users
            THEN errorResponse(@, "Failed to unenroll user", 500)
            ELSE [@ EXCEPT !.pc = "unenroll_updateUser",
                           !.found = Includes(enrolled_courses[procs[p].tgt],
                                              procs[p].cid),
                           !.snap = FilterOut(enrolled_courses[procs[p].tgt],
                                              procs[p].cid)]]
    /\ UNCHANGED <<accountVars, enrollmentVars, catalogVars, progressVars, submissions>>

\* update users set enrolled_courses = updatedEnrolledCourses
UnenrollUpdateUser(p) ==
    /\ procs[p].pc = "unenroll_updateUser"
    /\ \/ /\ enrolled_courses' = [enrolled_courses EXCEPT ![procs[p].tgt] =
                                        procs[p].snap]
          /\ procs' = [procs EXCEPT ![p] =
                [@ EXCEPT !.pc = "unenroll_selectCourse", !.snap = <<>>,
                          !.writes = @ + 1]]
       \/ /\ procs' = [procs EXCEPT ![p] =
                errorResponse(@, "Failed to unenroll user", 500)]
          /\ UNCHANGED enrolled_courses
    /\ UNCHANGED <<accountVars, enrolled_count, catalogVars, progressVars, submissions>>

\* select id, enrolled_count of the course; courseError is not looked at, so
\* a missing course makes course.enrolled_count throw.
UnenrollSelectCourse(p) ==
    /\ procs[p].pc = "unenroll_selectCourse"
    /\ procs' = [procs EXCEPT ![p] =
            IF procs[p].cid \notin courses
            THEN errorResponse(@, "Failed to unenroll user", 500)
            ELSE [@ EXCEPT !.pc = "unenroll_updateCourse",
                           !.cnt = enrolled_count[procs[p].cid]]]
    /\ UNCHANGED <<accountVars, enrollmentVars, catalogVars, progressVars, submissions>>

\* update courses set enrolled_count = course.enrolled_count - 1
UnenrollUpdateCourse(p) ==
    /\ procs[p].pc = "unenroll_updateCourse"
    /\ \/ /\ enrolled_count' = [c \in Courses |->
                IF c = procs[p].cid /\ c \in courses
                THEN procs[p].cnt - 1 ELSE enrolled_count[c]]
          /\ procs' = [procs EXCEPT ![p] =
                successResponse([@ EXCEPT !.writes = @ + 1],
                                "User unenrolled successfully")]
       \/ /\ procs' = [procs EXCEPT ![p] =
                errorResponse(@, "Failed to unenroll user", 500)]
          /\ UNCHANGED enrolled_count
    /\ UNCHANGED <<accountVars, enrolled_courses, catalogVars, progressVars, submissions>>

\* ------------------------------------------------------------ percentage
\* Math.round((n / total) * 100) for n >= 0 and total > 0: Math.round rounds
\* a half up.
MathRound(n, total) == (200 * n + total) \div (2 * total)

\* totalChapters > 0 ? Math.round((completed.length / totalChapters) * 100) : 0
Percentage(completed, totalChapters) ==
    IF totalChapters > 0 THEN MathRound(Len(completed), totalChapters) ELSE 0

\* The progressData object of a response.
RespondProgress(r, current, completed, total, percentage, msg) ==
    [r EXCEPT !.pc = "done", !.status = 200, !.msg = msg, !.found = FALSE,
              !.cur = current, !.snap = completed, !.cnt = total,
              !.pct = percentage]

\* ------------------------------------------- POST /courses/:courseId/progress
\* authMiddleware only; the record is the one of req.userId.
RecordProgressStart(p, actor, courseId, chapterId, isCompleted) ==
    /\ procs[p].pc = "idle"
    /\ procs' = [procs EXCEPT ![p] =
            [Idle EXCEPT !.op = "recordProgress", !.pc = "progress_findChapter",
                         !.uid = actor, !.tgt = actor, !.cid = courseId,
                         !.ch = chapterId, !.flag = isCompleted]]
    /\ UNCHANGED <<accountVars, enrollmentVars, catalogVars, progressVars, submissions>>

\* a findFirst whose where has the id alone
ChapterFoundInAnyCourse(chapterId, courseId) == chapters[chapterId] # 0

\* where: { id: parseInt(chapterId), course_id: courseId } finds a row
ChapterFound(chapterId, courseId) ==
    courseId # 0 /\ chapterId \in ChaptersOf(courseId)

\* prisma.chapter.findFirst({ where: { id, course_id } })
RecordProgressFindChapter(p) ==
    /\ procs[p].pc = "progress_findChapter"
    /\ procs' = [procs EXCEPT ![p] =
            IF ChapterFound(procs[p].ch, procs[p].cid)
            THEN [@ EXCEPT !.pc = "progress_findProgress"]
            ELSE errorResponse(@, "Chapter not found", 404)]
    /\ UNCHANGED <<accountVars, enrollmentVars, catalogVars, progressVars, submissions>>

\* prisma.userProgress.findFirst({ where: { user_id, course_id } })
RecordProgressFindProgress(p) ==
    /\ procs[p].pc = "progress_findProgress"
    /\ LET row == user_progress[<<procs[p].uid, procs[p].cid>>]
       IN procs' = [procs EXCEPT ![p] =
            [@ EXCEPT !.pc = "progress_write", !.found = row.exists,
                      !.snap = row.completed_chapters]]
    /\ UNCHANGED <<accountVars, enrollmentVars, catalogVars, progressVars, submissions>>

\* an update that writes the chapter alone
OnlyNewChapter(read, chapterId, isCompleted) ==
    IF isCompleted THEN <<chapterId>> ELSE read

\* newCompletedChapters, from the row that was read
NewCompletedChapters(read, chapterId, isCompleted) ==
    IF isCompleted /\ ~Includes(read, chapterId)
    THEN Append(read, chapterId) ELSE read

\* a table without the unique index
NoUniqueIndex(row) == FALSE

\* CREATE UNIQUE INDEX "UserProgress_user_id_course_id_key": an insert for a
\* pair that has a row is rejected.
UniqueIndexRejects(row) == row.rows > 0

\* prisma.userProgress.create when no row was read (the unique index on
\* (user_id, course_id) and the foreign key to Course reject the insert),
\* prisma.userProgress.update of the row that was read otherwise.
RecordProgressWrite(p) ==
    /\ procs[p].pc = "progress_write"
    /\ LET r == procs[p]
           k == <<r.uid, r.cid>>
           created == IF r.flag THEN <<r.ch>> ELSE <<>>
           updated == NewCompletedChapters(r.snap, r.ch, r.flag)
           written == IF r.found THEN updated ELSE created
           rows == IF r.found THEN user_progress[k].rows
                   ELSE user_progress[k].rows + 1
       IN IF r.found \/ (~UniqueIndexRejects(user_progress[k])
                         /\ r.cid \in courses)
          THEN /\ user_progress' = [user_progress EXCEPT ![k] =
                    [exists |-> TRUE, rows |-> rows,
                     current_chapter_id |-> r.ch,
                     completed_chapters |-> written]]
               /\ procs' = [procs EXCEPT ![p] =
                    [@ EXCEPT !.pc = "progress_count", !.found = FALSE,
                              !.cur = r.ch, !.snap = written,
                              !.writes = @ + 1]]
          ELSE /\ procs' = [procs EXCEPT ![p] =
                    errorResponse(@, "Failed to update progress", 500)]
               /\ UNCHANGED user_progress
    /\ UNCHANGED <<accountVars, enrollmentVars, catalogVars, submissions>>

\* prisma.chapter.count, then the percentage of the row that was written
RecordProgressCount(p) ==
    /\ procs[p].pc = "progress_count"
    /\ LET r == procs[p]
           totalChapters == ChapterCount(r.cid)
       IN procs' = [procs EXCEPT ![p] =
            RespondProgress(r, r.cur, r.snap, totalChapters,
                            Percentage(r.snap, totalChapters),
                            "Progress updated successfully")]
    /\ UNCHANGED <<accountVars, enrollmentVars, catalogVars, progressVars, submissions>>

\* -------------------------------------------- GET /courses/:courseId/progress
GetProgressStart(p, actor, courseId) ==
    /\ procs[p].pc = "idle"
    /\ procs' = [procs EXCEPT ![p] =
            [Idle EXCEPT !.op = "getProgress", !.pc = "getProgress_count",
                         !.uid = actor, !.tgt = actor, !.cid = courseId]]
    /\ UNCHANGED <<accountVars, enrollmentVars, catalogVars, progressVars, submissions>>

\* prisma.chapter.count({ where: { course_id } })
GetProgressCount(p) ==
    /\ procs[p].pc = "getProgress_count"
    /\ procs' = [procs EXCEPT ![p] =
            [@ EXCEPT !.pc = "getProgress_find",
                      !.cnt = ChapterCount(procs[p].cid)]]
    /\ UNCHANGED <<accountVars, enrollmentVars, catalogVars, progressVars, submissions>>

\* prisma.userProgress.findFirst, then the default or the stored progress
GetProgressFind(p) ==
    /\ procs[p].pc = "getProgress_find"
    /\ LET r == procs[p]
           row == IF r.cid \in Courses THEN user_progress[<<r.uid, r.cid>>]
                  ELSE NoProgress
       IN procs' = [procs EXCEPT ![p] =
            IF ~row.exists
            THEN RespondProgress(r, 1, <<>>, r.cnt, 0,
                                 "Default progress retrieved")
            ELSE RespondProgress(r, row.current_chapter_id,
                                 row.completed_chapters, r.cnt,
                                 Percentage(row.completed_chapters, r.cnt),
                                 "User progress retrieved successfully")]
    /\ UNCHANGED <<accountVars, enrollmentVars, catalogVars, progressVars, submissions>>

\* ------------------------------------ POST /courses/:courseId/validate-chapter
\* a gate that also turns away the score 80
ScoreAtMostThreshold(score) == score # NoScore /\ score <= PassScore

\* if (score < 80): a missing score is undefined, and undefined < 80 is false.
ScoreBelowThreshold(score) == score # NoScore /\ score < PassScore

ValidateChapterStart(p, tokenRole, courseId, chapterId, score, studentId) ==
    /\ procs[p].pc = "idle"
    /\ (studentId \in Users /\ courseId \in Courses) =>
            Len(user_progress[<<studentId, courseId>>].completed_chapters)
                < MaxCompleted
    /\ LET r == [Idle EXCEPT !.op = "validateChapter", !.role = tokenRole,
                             !.tgt = studentId, !.cid = courseId,
                             !.ch = chapterId, !.score = score]
       IN procs' = [procs EXCEPT ![p] =
            IF ~mentorAdminMiddleware(tokenRole)
            THEN errorResponse(r, "Access denied. Mentor or Admin role required.", 403)
            ELSE IF ScoreBelowThreshold(score)
            THEN errorResponse(r, "Score is below 80%, chapter not validated", 400)
            ELSE [r EXCEPT !.pc = "validate_upsert"]]
    /\ UNCHANGED <<accountVars, enrollmentVars, catalogVars, progressVars, submissions>>

\* update: { current_chapter_id, completed_chapters: { push: chapterId } }
UpsertUpdate(row, chapterId) ==
    [exists |-> TRUE, rows |-> row.rows, current_chapter_id |-> chapterId,
     completed_chapters |-> Append(row.completed_chapters, chapterId)]

\* create: { current_chapter_id, completed_chapters: [chapterId] }
UpsertCreate(chapterId) ==
    [exists |-> TRUE, rows |-> 1, current_chapter_id |-> chapterId,
     completed_chapters |-> <<chapterId>>]

\* prisma.userProgress.upsert on the key user_id_course_id; the foreign keys
\* to User and Course reject a row of an unknown student or course.
ValidateChapterUpsert(p) ==
    /\ procs[p].pc = "validate_upsert"
    /\ LET r == procs[p]
           k == <<r.tgt, r.cid>>
       IN IF r.tgt \in Users /\ r.cid \in courses
          THEN LET row == IF user_progress[k].exists
                          THEN UpsertUpdate(user_progress[k], r.ch)
                          ELSE UpsertCreate(r.ch)
               IN /\ user_progress' = [user_progress EXCEPT ![k] = row]
                  /\ procs' = [procs EXCEPT ![p] =
                        [successResponse(@,
                            "Chapter validated and progress updated successfully")
                         EXCEPT !.writes = @ + 1,
                                !.cur = row.current_chapter_id,
                                !.snap = row.completed_chapters]]
          ELSE /\ procs' = [procs EXCEPT ![p] =
                    errorResponse(@,
                        "Failed to validate chapter and update progress", 500)]
               /\ UNCHANGED user_progress
    /\ UNCHANGED <<accountVars, enrollmentVars, catalogVars, submissions>>

\* ----------------------------- DELETE /courses/:courseId/chapters/:chapterId
DeleteChapterStart(p, tokenRole, courseId, chapterId) ==
    /\ procs[p].pc = "idle"
    /\ LET r == [Idle EXCEPT !.op = "deleteChapter", !.cid = courseId,
                             !.ch = chapterId]
       IN procs' = [procs EXCEPT ![p] =
            IF ~AdminMiddleware(tokenRole)
            THEN errorResponse(r, "Access denied. Admin role required.", 403)
            ELSE [r EXCEPT !.pc = "deleteChapter_delete"]]
    /\ UNCHANGED <<accountVars, enrollmentVars, catalogVars, progressVars, submissions>>

\* delete from chapters where id = chapterId and course_id = courseId; no row
\* matching is no error.  Submission.chapter_id is a foreign key (RESTRICT).
DeleteChapterDelete(p) ==
    /\ procs[p].pc = "deleteChapter_delete"
    /\ LET r == procs[p]
           referenced == \E i \in 1..Len(submissions) :
                            submissions[i].chapter_id = r.ch
       IN IF r.ch \in ChaptersOf(r.cid) /\ r.cid # 0 /\ referenced
          THEN /\ procs' = [procs EXCEPT ![p] =
                    errorResponse(@, "Failed to delete chapter", 500)]
               /\ UNCHANGED chapters
          ELSE /\ chapters' = [c \in ChapterIds |->
                    IF c = r.ch /\ chapters[c] = r.cid THEN 0 ELSE chapters[c]]
               /\ procs' = [procs EXCEPT ![p] =
                    successResponse([@ EXCEPT !.writes = @ + 1],
                                    "Chapter deleted successfully")]
    /\ UNCHANGED <<accountVars, enrollmentVars, courses, progressVars, submissions>>

\* ------------------------------------------------ DELETE /courses/:courseId
DeleteCourseStart(p, tokenRole, courseId) ==
    /\ procs[p].pc = "idle"
    /\ LET r == [Idle EXCEPT !.op = "deleteCourse", !.role = tokenRole,
                             !.cid = courseId]
       IN procs' = [procs EXCEPT ![p] =
            IF ~AdminMiddleware(tokenRole)
            THEN errorResponse(r, "Access denied. Admin role required.", 403)
            ELSE [r EXCEPT !.pc = "deleteCourse_delete"]]
    /\ UNCHANGED <<accountVars, enrollmentVars, catalogVars, progressVars, submissions>>

\* prisma.course.delete({ where: { id } }): no such course makes it throw;
\* the chapters go with the course (ON DELETE CASCADE); a UserProgress or a
\* Submission of the course, or a Submission of one of its chapters, stops
\* the delete (ON DELETE RESTRICT).  User.enrolled_courses is an Int[], which
\* no constraint ties to Course; the count goes with the course's row.
DeleteCourseDelete(p) ==
    /\ procs[p].pc = "deleteCourse_delete"
    /\ LET r == procs[p]
           restricted ==
               \/ \E u \in Users : user_progress[<<u, r.cid>>].exists
               \/ \E i \in 1..Len(submissions) :
                     \/ submissions[i].course_id = r.cid
                     \/ submissions[i].chapter_id \in ChaptersOf(r.cid)
       IN IF r.cid \in courses /\ ~restricted
          THEN /\ courses' = courses \ {r.cid}
               /\ chapters' = [c \in ChapterIds |->
                    IF chapters[c] = r.cid THEN 0 ELSE chapters[c]]
               /\ enrolled_count' = [enrolled_count EXCEPT ![r.cid] = 0]
               /\ procs' = [procs EXCEPT ![p] =
                    successResponse([@ EXCEPT !.writes = @ + 1],
                                    "Course deleted successfully")]
          ELSE /\ procs' = [procs EXCEPT ![p] =
                    errorResponse(@, "Failed to delete course", 500)]
               /\ UNCHANGED <<courses, chapters, enrolled_count>>
    /\ UNCHANGED <<accountVars, enrolled_courses, progressVars, submissions>>

\* ------------------- POST /courses/:courseId/chapters/:chapterId/submit-link
\* authMiddleware only.
SubmitLinkStart(p, actor, courseId, chapterId, link) ==
    /\ procs[p].pc = "idle"
    /\ Len(submissions) < MaxSubmissions
    /\ procs' = [procs EXCEPT ![p] =
            [Idle EXCEPT !.op = "submitLink", !.pc = "submit_create",
                         !.uid = actor, !.tgt = actor, !.cid = courseId,
                         !.ch = chapterId, !.link = link]]
    /\ UNCHANGED <<accountVars, enrollmentVars, catalogVars, progressVars, submissions>>

\* prisma.submission.create: link is a required String (a missing one is
\* rejected, an empty one is not); course_id and chapter_id are foreign keys.
SubmitLinkCreate(p) ==
    /\ procs[p].pc = "submit_create"
    /\ LET r == procs[p]
       IN IF r.link # NoLink /\ r.cid \in courses /\ r.ch \in ChapterIds
             /\ chapters[r.ch] # 0
          THEN /\ submissions' = Append(submissions,
                    [user_id |-> r.uid, course_id |-> r.cid,
                     chapter_id |-> r.ch, link |-> r.link,
                     status |-> "PENDING", mentor_id |-> 0,
                     mentor_comment |-> 0])
               /\ procs' = [procs EXCEPT ![p] =
                    [successResponse(@, "Submission created successfully")
                     EXCEPT !.sid = Len(submissions) + 1, !.data = "PENDING",
                            !.writes = @ + 1]]
          ELSE /\ procs' = [procs EXCEPT ![p] =
                    errorResponse(@, "Failed to create submission", 500)]
               /\ UNCHANGED submissions
    /\ UNCHANGED <<accountVars, enrollmentVars, catalogVars, progressVars>>

\* ---------------------------------- PUT /courses/submissions/:submissionId
UpdateSubmissionStart(p, actor, submissionId, link) ==
    /\ procs[p].pc = "idle"
    /\ procs' = [procs EXCEPT ![p] =
            [Idle EXCEPT !.op = "updateSubmission", !.pc = "update_updateMany",
                         !.uid = actor, !.tgt = actor, !.sid = submissionId,
                         !.link = link]]
    /\ UNCHANGED <<accountVars, enrollmentVars, catalogVars, progressVars, submissions>>

\* an updateMany whose where has the id alone
UpdateMatchesAnyOwner(row, userId) == row.user_id = row.user_id

\* where: { id: parseInt(submissionId), user_id: userId }, for the row of id
UpdateMatches(row, userId) == row.user_id = userId

\* prisma.submission.updateMany({ where: { id, user_id }, data: { link,
\* status: 'PENDING', updated_at } }); a missing link leaves the link as it is.
UpdateSubmissionUpdateMany(p) ==
    /\ procs[p].pc = "update_updateMany"
    /\ LET r == procs[p]
           matches == /\ r.sid \in 1..Len(submissions)
                      /\ UpdateMatches(submissions[r.sid], r.uid)
       IN IF matches
          THEN /\ submissions' = [submissions EXCEPT ![r.sid] =
                    [@ EXCEPT !.link = IF r.link = NoLink THEN @ ELSE r.link,
                              !.status = "PENDING"]]
               /\ procs' = [procs EXCEPT ![p] =
                    [@ EXCEPT !.pc = "update_findUnique", !.writes = @ + 1]]
          ELSE /\ procs' = [procs EXCEPT ![p] = errorResponse(@,
                    "Submission not found or you do not have permission to update it",
                    404)]
               /\ UNCHANGED submissions
    /\ UNCHANGED <<accountVars, enrollmentVars, catalogVars, progressVars>>

\* prisma.submission.findUnique({ where: { id } })
UpdateSubmissionFindUnique(p) ==
    /\ procs[p].pc = "update_findUnique"
    /\ procs' = [procs EXCEPT ![p] =
            [successResponse(@, "Submission updated successfully")
             EXCEPT !.data = submissions[procs[p].sid].status]]
    /\ UNCHANGED <<accountVars, enrollmentVars, catalogVars, progressVars, submissions>>

\* ----------------------------- POST /courses/submissions/:submissionId/assign
\* mentorId is req.userId.
AssignStart(p, actor, tokenRole, submissionId) ==
    /\ procs[p].pc = "idle"
    /\ LET r == [Idle EXCEPT !.op = "assign", !.uid = actor,
                             !.sid = submissionId]
       IN procs' = [procs EXCEPT ![p] =
            IF ~mentorAdminMiddleware(tokenRole)
            THEN errorResponse(r, "Access denied. Mentor or Admin role required.", 403)
            ELSE [r EXCEPT !.pc = "assign_update",
                           !.free = /\ submissionId \in 1..Len(submissions)
                                    /\ submissions[submissionId].mentor_id = 0]]
    /\ UNCHANGED <<accountVars, enrollmentVars, catalogVars, progressVars, submissions>>

\* update submissions set mentor_id = mentorId where id = submissionId and
\* mentor_id is null: one statement.  The client hands back the updated rows
\* (every insert and update of this revision reads `data` back without a
\* .select()), so .single() makes an update of no row an error.
\* the update without its .is('mentor_id', null) filter
AssignMatchesAnyRow(row) == row.mentor_id = row.mentor_id

AssignMatches(row) == row.mentor_id = 0

AssignUpdate(p) ==
    /\ procs[p].pc = "assign_update"
    /\ LET r == procs[p]
       IN IF r.sid \in 1..Len(submissions) /\ AssignMatches(submissions[r.sid])
          THEN /\ submissions' = [submissions EXCEPT ![r.sid] =
                    [@ EXCEPT !.mentor_id = r.uid]]
               /\ procs' = [procs EXCEPT ![p] =
                    [successResponse(@, "Submission assigned successfully")
                     EXCEPT !.data = submissions[r.sid].status,
                            !.writes = @ + 1]]
          ELSE /\ procs' = [procs EXCEPT ![p] =
                    errorResponse(@, "Failed to assign submission", 500)]
               /\ UNCHANGED submissions
    /\ UNCHANGED <<accountVars, enrollmentVars, catalogVars, progressVars>>

\* ------------------------------ PUT /admin/mentor/submissions/:submissionId
ReviewStart(p, actor, tokenRole, submissionId, status, mentor_comment) ==
    /\ procs[p].pc = "idle"
    /\ LET r == [Idle EXCEPT !.op = "review", !.uid = actor,
                             !.role = tokenRole,
                             !.sid = submissionId, !.decision = status,
                             !.comment = mentor_comment]
       IN procs' = [procs EXCEPT ![p] =
            IF ~mentorAdminMiddleware(tokenRole)
            THEN errorResponse(r, "Access denied. Mentor or Admin role required.", 403)
            ELSE [r EXCEPT !.pc = "review_update"]]
    /\ UNCHANGED <<accountVars, enrollmentVars, catalogVars, progressVars, submissions>>

\* prisma.submission.update({ where: { id }, data: { status, mentor_comment } });
\* a status outside enum SubmissionStatus, or no row, makes update throw.
ReviewUpdate(p) ==
    /\ procs[p].pc = "review_update"
    /\ LET r == procs[p]
       IN IF r.sid \in 1..Len(submissions) /\ r.decision \in SubmissionStatus
          THEN /\ submissions' = [submissions EXCEPT ![r.sid] =
                    [@ EXCEPT !.status = r.decision,
                              !.mentor_comment = r.comment]]
               /\ procs' = [procs EXCEPT ![p] =
                    [successResponse(@, "Submission updated successfully")
                     EXCEPT !.data = r.decision, !.writes = @ + 1]]
          ELSE /\ procs' = [procs EXCEPT ![p] =
                    errorResponse(@, "Failed to update submission", 500)]
               /\ UNCHANGED submissions
    /\ UNCHANGED <<accountVars, enrollmentVars, catalogVars, progressVars>>

\* ------------ GET /courses/:courseId/chapters/:chapterId/submission-status
GetStatusStart(p, actor, courseId, chapterId) ==
    /\ procs[p].pc = "idle"
    /\ procs' = [procs EXCEPT ![p] =
            [Idle EXCEPT !.op = "getStatus", !.pc = "getStatus_findFirst",
                         !.uid = actor, !.tgt = actor, !.cid = courseId,
                         !.ch = chapterId]]
    /\ UNCHANGED <<accountVars, enrollmentVars, catalogVars, progressVars, submissions>>

\* the rows of (user_id, course_id, chapter_id)
SubmissionsOf(userId, courseId, chapterId) ==
    {i \in 1..Len(submissions) :
        /\ submissions[i].user_id = userId
        /\ submissions[i].course_id = courseId
        /\ submissions[i].chapter_id = chapterId}

\* prisma.submission.findFirst({ where: { user_id, course_id, chapter_id } }):
\* no orderBy, so any of the matching rows may be the one returned.
GetStatusFindFirst(p) ==
    /\ procs[p].pc = "getStatus_findFirst"
    /\ LET r == procs[p]
           rows == SubmissionsOf(r.uid, r.cid, r.ch)
       IN IF rows = {}
          THEN procs' = [procs EXCEPT ![p] =
                    [successResponse(@, "No submission found for this chapter")
                     EXCEPT !.data = "NOT_SUBMITTED"]]
          ELSE \E i \in rows :
                 procs' = [procs EXCEPT ![p] =
                    [successResponse(@, "Submission status retrieved successfully")
                     EXCEPT !.sid = i, !.data = submissions[i].status]]
    /\ UNCHANGED <<accountVars, enrollmentVars, catalogVars, progressVars, submissions>>

\* ------------------------------------------------- PUT /users/:userId
\* authMiddleware only: any authenticated caller, for any userId.
\* newRole "none": the body has no role.
RoleInputs == Roles \cup {"none"}

UpdateProfileStart(p, actor, tokenRole, userId, newRole) ==
    /\ procs[p].pc = "idle"
    /\ procs' = [procs EXCEPT ![p] =
            [Idle EXCEPT !.op = "updateProfile", !.pc = "profile_update",
                         !.uid = actor, !.role = tokenRole, !.tgt = userId,
                         !.decision = newRole]]
    /\ UNCHANGED <<accountVars, enrollmentVars, catalogVars, progressVars, submissions>>

\* update users set ..., role = role where id = userId (.single(): no row is
\* an error); an undefined role is left out of the update.
UpdateProfileUpdate(p) ==
    /\ procs[p].pc = "profile_update"
    /\ LET r == procs[p]
       IN IF r.tgt \in Users
          THEN /\ role' = IF r.decision = "none" THEN role
                          ELSE [role EXCEPT ![r.tgt] = r.decision]
               /\ procs' = [procs EXCEPT ![p] =
                    [successResponse(@, "User updated successfully")
                     EXCEPT !.writes = @ + 1]]
          ELSE /\ procs' = [procs EXCEPT ![p] =
                    errorResponse(@, "Failed to update user", 500)]
               /\ UNCHANGED role
    /\ UNCHANGED <<is_suspended, enrollmentVars, catalogVars, progressVars, submissions>>

\* ------------------------------------------- PUT /admin/users/:userId
AdminUpdateUserStart(p, actor, tokenRole, userId, newRole) ==
    /\ procs[p].pc = "idle"
    /\ LET r == [Idle EXCEPT !.op = "adminUpdateUser", !.uid = actor,
                             !.role = tokenRole, !.tgt = userId,
                             !.decision = newRole]
       IN procs' = [procs EXCEPT ![p] =
            IF ~AdminMiddleware(tokenRole)
            THEN errorResponse(r, "Access denied. Admin role required.", 403)
            ELSE [r EXCEPT !.pc = "adminUpdateUser_update"]]
    /\ UNCHANGED <<accountVars, enrollmentVars, catalogVars, progressVars, submissions>>

\* prisma.user.update({ where: { id }, data: { email, full_name, role,
\* username } }): an undefined field is left as it is; no row makes it throw.
AdminUpdateUserUpdate(p) ==
    /\ procs[p].pc = "adminUpdateUser_update"
    /\ LET r == procs[p]
       IN IF r.tgt \in Users
          THEN /\ role' = IF r.decision = "none" THEN role
                          ELSE [role EXCEPT ![r.tgt] = r.decision]
               /\ procs' = [procs EXCEPT ![p] =
                    [successResponse(@, "User updated successfully")
                     EXCEPT !.writes = @ + 1]]
          ELSE /\ procs' = [procs EXCEPT ![p] =
                    errorResponse(@, "Failed to update user", 500)]
               /\ UNCHANGED role
    /\ UNCHANGED <<is_suspended, enrollmentVars, catalogVars, progressVars, submissions>>

\* ----------------------------------- PUT /admin/users/:userId/suspend
SuspendStart(p, actor, tokenRole, userId, suspended) ==
    /\ procs[p].pc = "idle"
    /\ LET r == [Idle EXCEPT !.op = "suspend", !.uid = actor,
                             !.role = tokenRole, !.tgt = userId,
                             !.flag = suspended]
       IN procs' = [procs EXCEPT ![p] =
            IF ~AdminMiddleware(tokenRole)
            THEN errorResponse(r, "Access denied. Admin role required.", 403)
            ELSE [r EXCEPT !.pc = "suspend_update"]]
    /\ UNCHANGED <<accountVars, enrollmentVars, catalogVars, progressVars, submissions>>

\* prisma.user.update({ where: { id }, data: { is_suspended } })
SuspendUpdate(p) ==
    /\ procs[p].pc = "suspend_update"
    /\ LET r == procs[p]
       IN IF r.tgt \in Users
          THEN /\ is_suspended' = [is_suspended EXCEPT ![r.tgt] = r.flag]
               /\ procs' = [procs EXCEPT ![p] =
                    [successResponse(@, IF r.flag
                                        THEN "User suspended successfully"
                                        ELSE "User reactivated successfully")
                     EXCEPT !.writes = @ + 1]]
          ELSE /\ procs' = [procs EXCEPT ![p] =
                    errorResponse(@, "Failed to update user suspension status", 500)]
               /\ UNCHANGED is_suspended
    /\ UNCHANGED <<role, enrollmentVars, catalogVars, progressVars, submissions>>

\* -------------------------------------------------------- specifications
\* One request at a time: the slot of the only request in flight.
OneAtATime == {1}
\* Two requests in flight: the slots of a pair of concurrent requests.
TwoAtATime == {1, 2}
\* The inputs of the specifications with concurrent requests.
OneLearner == {1}
OneCourse == {1}
OneChapter == {1}
OneLink == {1}
OneSubmission == {1}
OneComment == {1}

\* ------------------------------------------------------------- enrollment
NextEnrollment(P) ==
    \E p \in P :
        \/ \E a \in Users, e \in EmailInputs, c \in CourseInputs :
                EnrollStart(p, a, e, c)
        \/ EnrollFindCourse(p)
        \/ EnrollFindUser(p)
        \/ EnrollUpdateUser(p)
        \/ EnrollUpdateCourse(p)
        \/ EnrollSendEmail(p)
        \/ EnrollSendAdminEmail(p)
        \/ \E a \in Users, r \in Roles, u \in UserInputs, c \in CourseInputs :
                AdminEnrollStart(p, a, r, u, c)
        \/ AdminEnrollFindUser(p)
        \/ AdminEnrollUpdateUser(p)
        \/ \E a \in Users, r \in Roles, u \in UserInputs, c \in CourseInputs :
                UnenrollStart(p, a, r, u, c)
        \/ UnenrollSelectUser(p)
        \/ UnenrollUpdateUser(p)
        \/ UnenrollSelectCourse(p)
        \/ UnenrollUpdateCourse(p)
        \/ Return(p)

\* The enrollment handlers, one request at a time.
SpecEnrollment == Init /\ [][NextEnrollment(OneAtATime)]_vars

\* --------------------------------------------------------------- progress
NextProgress(P) ==
    \E p \in P :
        \/ \E a \in Users, c \in CourseInputs, ch \in ChapterInputs,
              done \in BOOLEAN :
                RecordProgressStart(p, a, c, ch, done)
        \/ RecordProgressFindChapter(p)
        \/ RecordProgressFindProgress(p)
        \/ RecordProgressWrite(p)
        \/ RecordProgressCount(p)
        \/ \E a \in Users, c \in CourseInputs : GetProgressStart(p, a, c)
        \/ GetProgressCount(p)
        \/ GetProgressFind(p)
        \/ \E r \in Roles, c \in CourseInputs, ch \in ChapterInputs,
              sc \in ScoreInputs, u \in UserInputs :
                ValidateChapterStart(p, r, c, ch, sc, u)
        \/ ValidateChapterUpsert(p)
        \/ \E r \in Roles, c \in CourseInputs, ch \in ChapterInputs :
                DeleteChapterStart(p, r, c, ch)
        \/ DeleteChapterDelete(p)
        \/ Return(p)

\* The progress handlers, one request at a time.
SpecProgress == Init /\ [][NextProgress(OneAtATime)]_vars

\* ------------------------------------------------------------ submissions
\* in: the sets the requests' inputs are drawn from.
NextSubmission(P, in) ==
    \E p \in P :
        \/ \E a \in in.learners, c \in in.courses, ch \in in.chapters,
              l \in in.links :
                SubmitLinkStart(p, a, c, ch, l)
        \/ SubmitLinkCreate(p)
        \/ \E a \in in.learners, i \in in.submissions, l \in in.links :
                UpdateSubmissionStart(p, a, i, l)
        \/ UpdateSubmissionUpdateMany(p)
        \/ UpdateSubmissionFindUnique(p)
        \/ \E a \in in.mentors, r \in in.roles, i \in in.submissions :
                AssignStart(p, a, r, i)
        \/ AssignUpdate(p)
        \/ \E a \in in.reviewers, r \in in.roles, i \in in.submissions,
              st \in in.decisions, cm \in in.comments :
                ReviewStart(p, a, r, i, st, cm)
        \/ ReviewUpdate(p)
        \/ Return(p)

NextGetStatus(P, in) ==
    \E p \in P :
        \/ \E a \in in.learners, c \in CourseInputs, ch \in in.chapters :
                GetStatusStart(p, a, c, ch)
        \/ GetStatusFindFirst(p)

\* The submission handlers, one request at a time, on the submissions for
\* one chapter.
SubmissionInputSets ==
    [learners |-> Users, mentors |-> Users, reviewers |-> Users,
     chapters |-> OneChapter, links |-> LinkInputs, decisions |-> StatusInputs,
     courses |-> CourseInputs, submissions |-> SubmissionInputs, roles |-> Roles,
     comments |-> CommentInputs]

SpecSubmission ==
    Init /\ [][\/ NextSubmission(OneAtATime, SubmissionInputSets)
               \/ NextGetStatus(OneAtATime, SubmissionInputSets)]_vars

\* The submission handlers, one request at a time: the submissions of every
\* learner for one chapter, accepted by a mentor and sent again, with a link
\* or without.
ResubmissionInputSets ==
    [learners |-> Users, mentors |-> OneLearner, reviewers |-> OneLearner,
     chapters |-> OneChapter, links |-> {NoLink} \cup OneLink,
     decisions |-> {"ACCEPTED"}, courses |-> OneCourse,
     submissions |-> SubmissionInputs, roles |-> {"MENTOR"},
     comments |-> OneComment]

SpecResubmission ==
    Init /\ [][NextSubmission(OneAtATime, ResubmissionInputSets)]_vars

\* The handlers that write a submission, requests running concurrently on the
\* first submission of one learner (a request that names it before it is
\* created names no row), sent by learners and by mentors.
AssignmentInputSets ==
    [learners |-> OneLearner, mentors |-> Users, reviewers |-> OneLearner,
     chapters |-> OneChapter, links |-> OneLink, decisions |-> {"ACCEPTED"},
     courses |-> OneCourse, submissions |-> OneSubmission,
     roles |-> {"USER", "MENTOR"}, comments |-> OneComment]

SpecAssignment == Init /\ [][NextSubmission(Procs, AssignmentInputSets)]_vars

\* The two chapter-completion handlers, requests running concurrently on the
\* record of one learner in one course.
NextCompletion(P, U, C) ==
    \E p \in P :
        \/ \E a \in U, c \in C, ch \in ChapterInputs, done \in BOOLEAN :
                RecordProgressStart(p, a, c, ch, done)
        \/ RecordProgressFindChapter(p)
        \/ RecordProgressFindProgress(p)
        \/ RecordProgressWrite(p)
        \/ RecordProgressCount(p)
        \/ \E r \in Roles, c \in C, ch \in ChapterInputs,
              sc \in ScoreInputs, u \in U :
                ValidateChapterStart(p, r, c, ch, sc, u)
        \/ ValidateChapterUpsert(p)
        \/ Return(p)

SpecCompletion == Init /\ [][NextCompletion(Procs, OneLearner, OneCourse)]_vars

\* The progress handlers of one learner, one request at a time, on a
\* catalog an administrator deletes chapters from.
NextLearnerProgress(P) ==
    \E p \in P :
        \/ \E a \in OneLearner, c \in CourseInputs, ch \in ChapterInputs,
              done \in BOOLEAN :
                RecordProgressStart(p, a, c, ch, done)
        \/ RecordProgressFindChapter(p)
        \/ RecordProgressFindProgress(p)
        \/ RecordProgressWrite(p)
        \/ RecordProgressCount(p)
        \/ \E a \in OneLearner, c \in CourseInputs : GetProgressStart(p, a, c)
        \/ GetProgressCount(p)
        \/ GetProgressFind(p)
        \/ \E c \in Courses, ch \in ChapterInputs :
                DeleteChapterStart(p, "ADMIN", c, ch)
        \/ DeleteChapterDelete(p)
        \/ Return(p)

SpecLearnerProgress == Init /\ [][NextLearnerProgress(OneAtATime)]_vars

\* The two handlers that write UserProgress, run concurrently for one
\* learner, one course and one chapter.
NextFirstProgress(P) ==
    \E p \in P :
        \/ \E done \in BOOLEAN :
                RecordProgressStart(p, 1, 1, 1, done)
        \/ RecordProgressFindChapter(p)
        \/ RecordProgressFindProgress(p)
        \/ RecordProgressWrite(p)
        \/ RecordProgressCount(p)
        \/ \E sc \in {PassScore - 1, PassScore} :
                ValidateChapterStart(p, "MENTOR", 1, 1, sc, 1)
        \/ ValidateChapterUpsert(p)
        \/ Return(p)

SpecFirstProgress == Init /\ [][NextFirstProgress(TwoAtATime)]_vars

\* validate-chapter alone, one request at a time: every token role, score and
\* chapter, a known and an unknown student, a known and an unknown course.
NextValidateChapter(P) ==
    \E p \in P :
        \/ \E r \in Roles, c \in {0, 1}, ch \in ChapterInputs,
              sc \in ScoreInputs, u \in {0, 1} :
                ValidateChapterStart(p, r, c, ch, sc, u)
        \/ ValidateChapterUpsert(p)
        \/ Return(p)

SpecValidateChapter == Init /\ [][NextValidateChapter(OneAtATime)]_vars

\* The learner enroll handler, for the e-mail addresses E and the courses C.
NextLearnerEnroll(P, E, C) ==
    \E p \in P :
        \/ \E a \in OneLearner, e \in E, c \in C : EnrollStart(p, a, e, c)
        \/ EnrollFindCourse(p)
        \/ EnrollFindUser(p)
        \/ EnrollUpdateUser(p)
        \/ EnrollUpdateCourse(p)
        \/ EnrollSendEmail(p)
        \/ EnrollSendAdminEmail(p)
        \/ Return(p)

SpecConcurrentEnroll ==
    Init /\ [][NextLearnerEnroll(Procs, Users, OneCourse)]_vars

\* The learner enroll handler, one request at a time, every input.
SpecLearnerEnroll ==
    Init /\ [][NextLearnerEnroll(OneAtATime, EmailInputs, CourseInputs)]_vars

\* ---------------------------------------------------------------- catalog
NextDeleteCourse(P) ==
    \E p \in P :
        \/ \E r \in Roles, c \in CourseInputs : DeleteCourseStart(p, r, c)
        \/ DeleteCourseDelete(p)
        \/ Return(p)

\* Learners enroll themselves while administrators delete courses, one
\* request at a time.
SpecCourseDeletion ==
    Init /\ [][\/ NextLearnerEnroll(OneAtATime, Users, CourseInputs)
               \/ NextDeleteCourse(OneAtATime)]_vars

\* --------------------------------------------------------------- accounts
\* The handlers that write a user's role or suspension.  A request carries
\* the token of its caller's last login: the role is the caller's role.
NextAccounts(P) ==
    \E p \in P :
        \/ \E a \in Users, u \in UserInputs, nr \in RoleInputs :
                UpdateProfileStart(p, a, role[a], u, nr)
        \/ UpdateProfileUpdate(p)
        \/ \E a \in Users, u \in UserInputs, nr \in RoleInputs :
                AdminUpdateUserStart(p, a, role[a], u, nr)
        \/ AdminUpdateUserUpdate(p)
        \/ \E a \in Users, u \in UserInputs, b \in BOOLEAN :
                SuspendStart(p, a, role[a], u, b)
        \/ SuspendUpdate(p)
        \/ Return(p)

SpecAccounts == Init /\ [][NextAccounts(OneAtATime)]_vars

Next ==
    \/ NextEnrollment(Procs)
    \/ NextProgress(Procs)
    \/ NextSubmission(Procs, [SubmissionInputSets EXCEPT !.chapters = ChapterInputs])
    \/ NextGetStatus(Procs, [SubmissionInputSets EXCEPT !.chapters = ChapterInputs])
    \/ NextAccounts(Procs)
    \/ NextDeleteCourse(Procs)

Spec == Init /\ [][Next]_vars
\* ============================================================== properties
\* No request is between two storage calls.
Quiescent == \A p \in Procs : procs[p].pc \in {"idle", "done"}

\* The users whose enrolled set contains the course.
EnrolledUsers(courseId) ==
    {u \in Users : Includes(enrolled_courses[u], courseId)}

\* The ids of an array, as a set.
SetOf(arr) == {arr[i] : i \in 1..Len(arr)}

\* round(100 * k / n) for 0 <= k <= n, n > 0: the integer nearest to the
\* quotient, a half rounded up.
RoundPercent(k, n) ==
    CHOOSE r \in 0..100 : 2 * n * r - n <= 200 * k /\ 200 * k < 2 * n * r + n

\* C1: whenever no request is between two storage calls, each course's
\* enrolled_count equals the number of users whose enrolled set contains the
\* course.
C1_EnrolledCountMatchesUsers ==
    Quiescent =>
        \A c \in courses : enrolled_count[c] = Cardinality(EnrolledUsers(c))

\* C2: an enroll request that has answered has committed both of its writes or
\* none: it never leaves the course in the user's array without the
\* increment of enrolled_count.
C2_EnrollAllOrNothing ==
    \A p \in Procs :
        (procs[p].op = "enroll" /\ procs[p].pc = "done") =>
            procs[p].writes \in {0, 2}

\* C3: a submission whose status is ACCEPTED has its chapter in the
\* completed_chapters of its student's progress for its course, and a
\* getStatus answered for its (user, course, chapter) reports ACCEPTED.
C3_AcceptedIsCompleted ==
    /\ \A i \in 1..Len(submissions) :
            submissions[i].status = "ACCEPTED" =>
                Includes(user_progress[<<submissions[i].user_id,
                                         submissions[i].course_id>>]
                            .completed_chapters,
                         submissions[i].chapter_id)
    /\ \A p \in Procs :
            (/\ procs[p].op = "getStatus" /\ procs[p].pc = "done"
             /\ \E i \in SubmissionsOf(procs[p].uid, procs[p].cid, procs[p].ch) :
                    submissions[i].status = "ACCEPTED")
                => procs[p].data = "ACCEPTED"

\* C4: of two assigns by different mentors on the same submission, both sent
\* while its mentor_id was unset, exactly one succeeds and the other fails
\* (both fail only when a third request, in a third slot, has taken the
\* submission), and mentor_id is the winner's id; an assign on a submission whose
\* mentor_id is set fails and changes nothing, one on a submission whose
\* mentor_id is unset succeeds; a mentor_id that is set never changes.
AssignStep(p) ==
    LET r == procs[p]
        free == r.sid \in 1..Len(submissions) /\ submissions[r.sid].mentor_id = 0
    IN (r.pc = "assign_update" /\ procs'[p].pc = "done") =>
            IF free
            THEN /\ procs'[p].status = 200
                 /\ submissions'[r.sid].mentor_id = r.uid
            ELSE /\ procs'[p].status = 500
                 /\ submissions' = submissions

MentorKept ==
    \A i \in 1..Len(submissions) :
        submissions[i].mentor_id # 0 =>
            submissions'[i].mentor_id = submissions[i].mentor_id

AssignedOnce ==
    \A p, q \in Procs :
        (/\ p # q
         /\ procs[p].op = "assign" /\ procs[p].pc = "done"
         /\ procs[q].op = "assign" /\ procs[q].pc = "done"
         /\ procs[p].sid = procs[q].sid /\ procs[p].uid # procs[q].uid)
            => /\ ~(procs[p].status = 200 /\ procs[q].status = 200)
               /\ procs[p].status = 200 =>
                    submissions[procs[p].sid].mentor_id = procs[p].uid
               /\ (procs[p].free /\ procs[q].free) =>
                    \/ procs[p].status = 200
                    \/ procs[q].status = 200
                    \/ /\ NumProcs > 2
                       /\ submissions[procs[p].sid].mentor_id # 0

C4_AssignAtMostOnce ==
    /\ []AssignedOnce
    /\ [][MentorKept /\ \A p \in Procs : AssignStep(p)]_vars

\* C4 witness: two assigns of different mentors, both sent while the
\* submission was unassigned, have answered, one with success and one with a
\* failure, and the submission is the winner's.
C4_Witness ==
    \E p, q \in Procs :
        /\ procs[p].op = "assign" /\ procs[p].pc = "done"
        /\ procs[q].op = "assign" /\ procs[q].pc = "done"
        /\ procs[p].sid = procs[q].sid /\ procs[p].uid # procs[q].uid
        /\ procs[p].free /\ procs[q].free
        /\ procs[p].status = 200 /\ procs[q].status = 500
        /\ submissions[procs[p].sid].mentor_id = procs[p].uid

\* A request that has completed a chapter: recordProgress with isCompleted, or
\* validate-chapter, answered with success.
CompletedChapter(r) ==
    /\ r.pc = "done" /\ r.status = 200
    /\ \/ r.op = "recordProgress" /\ r.flag
       \/ r.op = "validateChapter"

\* C5: when two requests have completed two different chapters of the same
\* (user, course), both chapters are in the record's completed_chapters.
C5_BothChaptersCompleted ==
    \A p, q \in Procs :
        (/\ p # q
         /\ CompletedChapter(procs[p]) /\ CompletedChapter(procs[q])
         /\ procs[p].tgt = procs[q].tgt /\ procs[p].cid = procs[q].cid
         /\ procs[p].ch # procs[q].ch)
            => LET done == user_progress[<<procs[p].tgt, procs[p].cid>>]
                                .completed_chapters
               IN Includes(done, procs[p].ch) /\ Includes(done, procs[q].ch)

\* C6: no step removes a chapter from a record's completed_chapters, and
\* while the course's chapters stay the same no step lowers the percentage.
C6_CompletedNeverRemoved ==
    [][\A k \in Users \X Courses :
            /\ SetOf(user_progress[k].completed_chapters)
                    \subseteq SetOf(user_progress'[k].completed_chapters)
            /\ chapters' = chapters =>
                    Percentage(user_progress'[k].completed_chapters,
                               ChapterCount(k[2]))
                        >= Percentage(user_progress[k].completed_chapters,
                                      ChapterCount(k[2]))]_vars

\* C7: the percentage a getProgress reports for a course of N chapters is
\* within 0..100 and is round(100 * |completed_chapters| / N), 0 when N = 0.
C7_PercentageOfCompleted ==
    \A p \in Procs :
        (procs[p].op = "getProgress" /\ procs[p].pc = "done") =>
            LET n == procs[p].cnt
                k == Cardinality(SetOf(procs[p].snap))
            IN /\ procs[p].pct \in 0..100
               /\ n = 0 => procs[p].pct = 0
               /\ n > 0 => (k <= n /\ procs[p].pct = RoundPercent(k, n))

\* C8: validating a chapter that is already in completed_chapters, by a
\* score or by recordProgress with isCompleted, succeeds and leaves
\* completed_chapters as it is.
C8_RevalidationChangesNothing ==
    [][\A p \in Procs :
        LET r == procs[p]
            k == <<r.tgt, r.cid>>
        IN (/\ \/ r.pc = "validate_upsert"
               \/ r.pc = "progress_write" /\ r.flag
            /\ procs'[p].pc # r.pc
            /\ r.tgt \in Users /\ r.cid \in Courses
            /\ Includes(user_progress[k].completed_chapters, r.ch))
                => /\ procs'[p].status \in {0, 200}
                   /\ user_progress'[k].completed_chapters
                        = user_progress[k].completed_chapters]_vars

\* C9: in every progress record the completed chapters and the current
\* chapter are chapters of the record's course.
C9_ProgressChaptersOfCourse ==
    \A k \in Users \X Courses :
        user_progress[k].exists =>
            /\ SetOf(user_progress[k].completed_chapters)
                    \subseteq ChaptersOf(k[2])
            /\ user_progress[k].current_chapter_id \in ChaptersOf(k[2])

\* C10: no step changes the status of a submission that is ACCEPTED.
C10_AcceptedIsTerminal ==
    [][\A i \in 1..Len(submissions) :
            submissions[i].status = "ACCEPTED" =>
                submissions'[i].status = "ACCEPTED"]_vars

\* C11: a review changes a submission only when its caller is an ADMIN or
\* the mentor the submission is assigned to; a review by any other caller
\* (another MENTOR, a learner) is answered with an error and leaves the
\* submissions as they are.
C11_ReviewOnlyByAssignedMentor ==
    [][\A p \in Procs :
        LET r == procs'[p]
            allowed == \/ r.role = "ADMIN"
                       \/ /\ r.role = "MENTOR"
                          /\ r.sid \in 1..Len(submissions)
                          /\ submissions[r.sid].mentor_id = r.uid
        IN (r.op = "review" /\ r.pc = "done" /\ procs[p].pc # "done"
            /\ ~allowed)
                => /\ r.status # 200
                   /\ submissions' = submissions]_vars

\* C12: every step that changes a user's role or suspended flag is the step
\* of a request whose caller has role ADMIN.
C12_AccountsChangedByAdminOnly ==
    [][(role' # role \/ is_suspended' # is_suspended) =>
            \E p \in Procs :
                /\ procs'[p].pc # procs[p].pc
                /\ procs[p].role = "ADMIN"]_vars

\* C13: with enroll requests running concurrently, no user's enrolled array
\* holds a course more than once and no course's enrolled_count exceeds the
\* number of users enrolled in it (two enrolls of one user count once); and
\* every increment adds exactly one to the count as it is at that moment
\* (two enrolls of different users count twice).
EnrolledOnce ==
    \A u \in Users, c \in Courses :
        /\ CountOf(enrolled_courses[u], c) <= 1
        /\ enrolled_count[c] <= Cardinality(EnrolledUsers(c))

IncrementByOne ==
    \A p \in Procs :
        (procs[p].pc = "enroll_updateCourse"
         /\ procs'[p].pc = "enroll_sendEmail")
            => enrolled_count'[procs[p].cid]
                    = enrolled_count[procs[p].cid] + 1

C13_ConcurrentEnrollCountsOnce ==
    /\ []EnrolledOnce
    /\ [][IncrementByOne]_vars

\* C14: an enroll of a user who is not enrolled in an existing course goes on
\* to its two writes, which add the course once and raise enrolled_count by
\* exactly 1, and an enroll that answers with success has made both; an
\* enroll of a user who is already enrolled answers with the error "User
\* already enrolled in this course" and leaves the array and the count as
\* they are.
EnrollOutcome ==
    \A p \in Procs :
        (procs[p].op = "enroll" /\ procs[p].pc = "done") =>
            /\ procs[p].status = 200 =>
                    /\ procs[p].writes = 2
                    /\ CountOf(enrolled_courses[procs[p].tgt], procs[p].cid) = 1
            /\ procs[p].msg = "User already enrolled in this course" =>
                    /\ procs[p].status = 500
                    /\ procs[p].writes = 0

EnrollStep ==
    \A p \in Procs :
        LET r == procs[p]
        IN /\ (r.pc = "enroll_findUser" /\ procs'[p].pc # r.pc
               /\ r.tgt \in Users) =>
                    /\ UNCHANGED enrollmentVars
                    /\ IF CountOf(enrolled_courses[r.tgt], r.cid) > 0
                       THEN /\ procs'[p].pc = "done"
                            /\ procs'[p].msg
                                    = "User already enrolled in this course"
                       ELSE procs'[p].pc = "enroll_updateUser"
           /\ (r.pc = "enroll_updateUser"
               /\ procs'[p].pc = "enroll_updateCourse") =>
                    /\ enrolled_courses'[r.tgt]
                            = Append(enrolled_courses[r.tgt], r.cid)
                    /\ enrolled_count' = enrolled_count
           /\ (r.pc = "enroll_updateCourse"
               /\ procs'[p].pc = "enroll_sendEmail") =>
                    /\ enrolled_count'[r.cid] = enrolled_count[r.cid] + 1
                    /\ enrolled_courses' = enrolled_courses

C14_EnrollOnceThenRejected ==
    /\ []EnrollOutcome
    /\ [][EnrollStep]_vars

\* C14 witness: after an enroll has enrolled the user and counted it, a second
\* enroll of the same user in the same course has been rejected.
C14_Witness ==
    \E p \in Procs :
        /\ procs[p].op = "enroll" /\ procs[p].pc = "done"
        /\ procs[p].msg = "User already enrolled in this course"
        /\ procs[p].cid \in Courses /\ procs[p].tgt \in Users
        /\ enrolled_count[procs[p].cid] = 1
        /\ CountOf(enrolled_courses[procs[p].tgt], procs[p].cid) = 1

\* C15: no course's enrolled_count is below 0, and the unenroll of a user
\* whose array did not hold the course leaves the course's enrolled_count as
\* it is.
CountNotNegative == \A c \in Courses : enrolled_count[c] >= 0

UnenrollOfNotEnrolled ==
    \A p \in Procs :
        (procs[p].op = "unenroll" /\ procs'[p].pc # procs[p].pc
         /\ ~procs[p].found)
            => enrolled_count' = enrolled_count

C15_CountNeverNegative ==
    /\ []CountNotNegative
    /\ [][UnenrollOfNotEnrolled]_vars

\* C16: no (user, course) pair has more than one UserProgress row, also with
\* first-time requests running concurrently.
C16_OneProgressPerPair ==
    \A k \in Users \X Courses :
        /\ user_progress[k].rows <= 1
        /\ user_progress[k].exists <=> user_progress[k].rows = 1

\* C16 witness: a recordProgress that had read no row has had its insert
\* rejected, the row of the pair having been created in between.
C16_Witness ==
    \E p \in Procs :
        /\ procs[p].op = "recordProgress" /\ procs[p].pc = "done"
        /\ procs[p].status = 500 /\ procs[p].cid \in courses
        /\ user_progress[<<procs[p].uid, procs[p].cid>>].rows = 1

\* C17: a UserProgress row of (user, course) exists only if the course is in
\* the user's enrolled_courses.
C17_ProgressOnlyIfEnrolled ==
    \A u \in Users, c \in Courses :
        user_progress[<<u, c>>].exists => Includes(enrolled_courses[u], c)

\* A validate-chapter request of slot p is answered in this step.
ValidateAnswered(p) ==
    /\ procs[p].pc # "done"
    /\ procs'[p].pc = "done"
    /\ procs'[p].op = "validateChapter"

\* C18: a validate-chapter of a mentor or admin with a score below 80 is
\* answered 400 and changes no UserProgress row; with a score of 80 or more,
\* for an existing student and course, it is answered 200 and the chapter is
\* in the student's completed_chapters right after.
ScoreGate ==
    \A p \in Procs :
        LET r == procs'[p]
            k == <<r.tgt, r.cid>>
        IN (ValidateAnswered(p) /\ mentorAdminMiddleware(r.role)) =>
              /\ (r.score # NoScore /\ r.score < PassScore) =>
                    /\ r.status = 400
                    /\ r.msg = "Score is below 80%, chapter not validated"
                    /\ user_progress' = user_progress
              /\ (r.score >= PassScore /\ r.tgt \in Users /\ r.cid \in courses) =>
                    /\ r.status = 200
                    /\ user_progress'[k].exists
                    /\ Includes(user_progress'[k].completed_chapters, r.ch)

C18_ScoreGate == [][ScoreGate]_vars

\* C18 witness: a request with the score 80, for an existing student and
\* course, has been answered 200 and the row holds exactly its chapter.
C18_Witness ==
    \E p \in Procs :
        LET r == procs[p]
            k == <<r.tgt, r.cid>>
        IN /\ r.op = "validateChapter" /\ r.pc = "done"
           /\ r.score = PassScore /\ r.status = 200
           /\ r.tgt \in Users /\ r.cid \in courses
           /\ user_progress[k].completed_chapters = <<r.ch>>

\* C19: a validate-chapter of a mentor or admin whose score is missing or
\* outside [0,100] is answered with a failure and changes no UserProgress row.
ScoreValidated ==
    \A p \in Procs :
        LET r == procs'[p]
        IN (/\ ValidateAnswered(p)
            /\ mentorAdminMiddleware(r.role)
            /\ (r.score = NoScore \/ r.score < 0 \/ r.score > 100)) =>
              /\ r.status # 200
              /\ user_progress' = user_progress

C19_ScoreValidated == [][ScoreValidated]_vars

\* C20: a submit-link with an empty or missing link is answered with a
\* failure and adds no Submission; with a non-empty link, for an existing
\* course and chapter, it adds exactly one Submission, PENDING and without a
\* mentor.
LinkValidated ==
    \A p \in Procs :
        LET r == procs[p]
        IN (r.op = "submitLink" /\ r.pc # "done" /\ procs'[p].pc = "done") =>
              /\ (r.link = NoLink \/ r.link = 0) =>
                    /\ procs'[p].status # 200
                    /\ submissions' = submissions
              /\ (r.link > 0 /\ r.cid \in courses /\ r.ch \in ChapterIds
                  /\ chapters[r.ch] # 0) =>
                    /\ procs'[p].status = 200
                    /\ Len(submissions') = Len(submissions) + 1
                    /\ SubSeq(submissions', 1, Len(submissions)) = submissions
                    /\ submissions'[Len(submissions')].status = "PENDING"
                    /\ submissions'[Len(submissions')].mentor_id = 0

C20_LinkValidated == [][LinkValidated]_vars

\* C21: an update of a submission that is not a row of the caller is answered
\* 404 and changes no Submission; no step of an update request changes a row
\* of another user.
UpdateOwnOnly ==
    \A p \in Procs :
        LET r == procs[p]
            own == /\ r.sid \in 1..Len(submissions)
                   /\ submissions[r.sid].user_id = r.uid
        IN (r.op = "updateSubmission" /\ procs'[p] # r) =>
              /\ Len(submissions') = Len(submissions)
              /\ \A i \in 1..Len(submissions) :
                    submissions[i].user_id # r.uid =>
                        submissions'[i] = submissions[i]
              /\ (r.pc = "update_updateMany" /\ ~own) =>
                    /\ procs'[p].pc = "done"
                    /\ procs'[p].status = 404
                    /\ submissions' = submissions

C21_UpdateOwnOnly == [][UpdateOwnOnly]_vars

\* C21 witness: an update that names an existing submission of another user
\* has been answered 404.
C21_Witness ==
    \E p \in Procs :
        LET r == procs[p]
        IN /\ r.op = "updateSubmission" /\ r.pc = "done" /\ r.status = 404
           /\ r.sid \in 1..Len(submissions)
           /\ submissions[r.sid].user_id # r.uid

\* C22: an update by the owner that succeeds leaves the submission PENDING,
\* whatever its status was, with the link of the request.
ResubmissionResets ==
    \A p \in Procs :
        LET r == procs[p]
        IN (/\ r.op = "updateSubmission"
            /\ r.pc = "update_updateMany"
            /\ procs'[p].pc = "update_findUnique") =>
              /\ submissions'[r.sid].status = "PENDING"
              /\ submissions'[r.sid].link = r.link

C22_ResubmissionResets == [][ResubmissionResets]_vars

\* the row created last among the rows i of the set
LatestOf(rows) == CHOOSE i \in rows : \A j \in rows : j <= i

\* C23: submission-status answers NOT_SUBMITTED exactly when the caller has
\* no submission for the course and chapter, and the latest created of them
\* otherwise.
LatestSubmissionReturned ==
    \A p \in Procs :
        LET r == procs[p]
            rows == SubmissionsOf(r.uid, r.cid, r.ch)
        IN (r.pc = "getStatus_findFirst" /\ procs'[p].pc = "done") =>
              /\ procs'[p].status = 200
              /\ procs'[p].data = "NOT_SUBMITTED" <=> rows = {}
              /\ rows # {} => procs'[p].sid = LatestOf(rows)

C23_LatestSubmissionReturned == [][LatestSubmissionReturned]_vars

\* C24: an assign that succeeds on a PENDING submission leaves it REVIEWING.
AssignStartsReview ==
    \A p \in Procs :
        LET r == procs[p]
        IN (/\ r.pc = "assign_update"
            /\ procs'[p].pc = "done" /\ procs'[p].status = 200
            /\ submissions[r.sid].status = "PENDING") =>
              /\ submissions'[r.sid].mentor_id = r.uid
              /\ submissions'[r.sid].status = "REVIEWING"

C24_AssignStartsReview == [][AssignStartsReview]_vars

\* C25: a progress request whose chapter is not a chapter of its course is
\* answered 404, and no step of it changes or creates a UserProgress row.
UnknownChapterRejected ==
    \A p \in Procs :
        LET r == procs[p]
        IN (/\ r.op = "recordProgress"
            /\ r.pc = "progress_findChapter"
            /\ procs'[p] # r
            /\ ~(r.cid \in Courses /\ chapters[r.ch] = r.cid)) =>
              /\ procs'[p].pc = "done"
              /\ procs'[p].status = 404
              /\ procs'[p].msg = "Chapter not found"
              /\ user_progress' = user_progress

C25_UnknownChapterRejected == [][UnknownChapterRejected]_vars

\* C25 witness: a progress request that names a chapter of the catalog and a
\* course the chapter is not in has been answered 404.
C25_Witness ==
    \E p \in Procs :
        LET r == procs[p]
        IN /\ r.op = "recordProgress" /\ r.pc = "done" /\ r.status = 404
           /\ chapters[r.ch] # 0 /\ chapters[r.ch] # r.cid

\* C26: the write of a progress request leaves the row with the request's
\* chapter as current chapter and, as completed set, the set before (empty
\* without a row) with the chapter added when isCompleted is sent: sending
\* the same completed chapter again changes nothing.
ProgressRecorded ==
    \A p \in Procs :
        LET r == procs[p]
            k == <<r.uid, r.cid>>
            before == IF user_progress[k].exists
                      THEN SetOf(user_progress[k].completed_chapters) ELSE {}
            added == IF r.flag THEN {r.ch} ELSE {}
        IN (r.pc = "progress_write" /\ procs'[p].pc = "progress_count") =>
              /\ user_progress'[k].exists
              /\ user_progress'[k].current_chapter_id = r.ch
              /\ SetOf(user_progress'[k].completed_chapters) = before \cup added
              /\ (r.flag /\ r.ch \in before) =>
                    user_progress'[k].completed_chapters
                        = user_progress[k].completed_chapters

C26_ProgressRecorded == [][ProgressRecorded]_vars

\* C26 witness: a request has completed a second chapter of a row: the row
\* holds the chapter completed before and the request's.
C26_Witness ==
    \E p \in Procs :
        LET r == procs[p]
            k == <<r.uid, r.cid>>
        IN /\ r.op = "recordProgress" /\ r.pc = "done" /\ r.status = 200
           /\ r.flag /\ r.cid \in Courses
           /\ Len(user_progress[k].completed_chapters) = 2
           /\ user_progress[k].completed_chapters[2] = r.ch
           /\ user_progress[k].completed_chapters[1] # r.ch

\* C27: a progress query of a pair without a row is answered 200 with the
\* first chapter of the course as current chapter, no completed chapter and
\* the percentage 0, and creates no row.
DefaultProgress ==
    \A p \in Procs :
        LET r == procs[p]
            none == r.cid \notin Courses \/ ~user_progress[<<r.uid, r.cid>>].exists
        IN (r.pc = "getProgress_find" /\ procs'[p] # r /\ none) =>
              /\ procs'[p].pc = "done" /\ procs'[p].status = 200
              /\ procs'[p].snap = <<>>
              /\ procs'[p].pct = 0
              /\ user_progress' = user_progress
              /\ ChaptersOf(r.cid) # {} /\ r.cid # 0 =>
                    /\ procs'[p].cur \in ChaptersOf(r.cid)
                    /\ \A ch \in ChaptersOf(r.cid) : procs'[p].cur <= ch

C27_DefaultProgress == [][DefaultProgress]_vars

\* C28: a step of a learner enroll request changes the enrolled_courses of
\* no user but its caller.
EnrollSelfOnly ==
    \A p \in Procs :
        LET r == procs[p]
        IN (r.op = "enroll" /\ procs'[p] # r) =>
              \A u \in Users :
                  u # r.uid => enrolled_courses'[u] = enrolled_courses[u]

C28_EnrollSelfOnly == [][EnrollSelfOnly]_vars

\* The errors of an enroll that come from its own tests and from the mail.
EnrollErrors ==
    {"Email is required", "Course not found", "User not found",
     "User already enrolled in this course", "mail error"}

\* C29: an enroll request answered with one of these errors has written
\* neither the user's enrolled_courses nor the course's enrolled_count, and,
\* unless the error is that the user is already enrolled, the user is not
\* enrolled.
C29_FailedEnrollLeavesNoTrace ==
    \A p \in Procs :
        LET r == procs[p]
        IN (/\ r.op = "enroll" /\ r.pc = "done" /\ r.status # 200
            /\ r.msg \in EnrollErrors) =>
              /\ r.writes = 0
              /\ (r.tgt \in Users
                  /\ r.msg # "User already enrolled in this course") =>
                    ~Includes(enrolled_courses[r.tgt], r.cid)

\* C30: every course id in a user's enrolled_courses is the id of a course
\* that exists.
C30_EnrolledCoursesExist ==
    \A u \in Users :
        \A i \in 1..Len(enrolled_courses[u]) :
            enrolled_courses[u][i] \in courses

=============================================================================
